---- MODULE Spec2Model ----
(***************************************************************************)
(* Wave-field integrator of interference-city (src/unnamed/part_001), and  *)
(* the source mover and material modes of its viewer (src/main.js, in the  *)
(* last section).                                                          *)
(*                                                                         *)
(* Three float render targets hold u^{t-1}, u^t and u^{t+1}; a fourth,     *)
(* sourceRT, holds the impulses of the current frame.  Every animation     *)
(* frame runs stepSimulation() and then renders the point cloud from the   *)
(* height map.  Pointer events push impulses on pendingSources.            *)
(*                                                                         *)
(* Numbers.  A cell value is an integer count of 1/Scale (fixed point).    *)
(* A result of the shader arithmetic is rounded to the nearest unit, but a *)
(* result that is not zero never rounds to zero (a 32-bit float does not   *)
(* underflow at these magnitudes), so "exactly 0" in the model means that  *)
(* the exact result is 0 or that exp() underflows.  A float keeps a fixed  *)
(* number of significant bits, FloatBits in the model: a value stored in   *)
(* a target is rounded to that many significant bits, ties to even.        *)
(* Texture coordinates and radii are counted in hundredths, u_c and        *)
(* u_damping in hundredths.                                                *)
(***************************************************************************)
EXTENDS Integers, Sequences, FiniteSets, TLC

\* ---------------------------------------------------------------- bounds
\* Side of the simulated grid (128 in the program).
SIM_SIZE == 3
\* Longest pending queue explored (unbounded in the program).
MaxPending == 2
\* Number of animation frames explored (unbounded in the program).
MaxSteps == 3

\* ------------------------------------------------------ program constants
\* Units per 1.0 of field value.
Scale == 1000
\* u_c = 0.3, in hundredths.
u_c == 30
\* u_damping = 0.01, in hundredths.
u_damping == 1
\* clamp(next, -5.0, 5.0)
ClampB == 5
\* strength: 3.0 of a pointer impulse, in field units.
PointerStrength == 3 * Scale
\* radius: 0.03 of a pointer impulse, in hundredths.
PointerRadius == 3
\* Red channel of the clear colour 0x000000, in field units.
BlackRed == 0
\* Red channel of BG_COLOR 0x05070a (5/255), in field units.
BgRed == 20
\* exp(-q) is 0 in a 32-bit float from about q = 104 on.
ExpUnderflow == 104
\* Significant bits of a float at the model's resolution (24 in a 32-bit
\* float, whose resolution is as much finer than one unit).
FloatBits == 11

\* ------------------------------------------------------------- arithmetic
Abs(a) == IF a < 0 THEN -a ELSE a

\* a / b rounded to the nearest integer, halves away from zero (b > 0).
RoundDiv(a, b) ==
    IF a >= 0 THEN (a + b \div 2) \div b ELSE -((-a + b \div 2) \div b)

\* The spacing of the floats around the magnitude a >= 0.
RECURSIVE Ulp(_)
Ulp(a) == IF a < 2 ^ FloatBits THEN 1 ELSE 2 * Ulp(a \div 2)

\* v as a float: the nearest value of FloatBits significant bits, ties to
\* the even one.
RoundFloat(v) ==
    LET a == Abs(v)
        u == Ulp(a)
        q == a \div u
        r == a % u
        m == IF 2 * r > u \/ (2 * r = u /\ q % 2 = 1) THEN q + 1 ELSE q
    IN  IF v < 0 THEN -(m * u) ELSE m * u

\* a / b as a field value: nearest unit, never 0 unless a = 0, as a float.
Quantize(a, b) ==
    LET r == RoundDiv(a, b)
    IN  IF r = 0 /\ a # 0 THEN (IF a > 0 THEN 1 ELSE -1) ELSE RoundFloat(r)

\* GLSL clamp(v, lo, hi)
clamp(v, lo, hi) == IF v < lo THEN lo ELSE IF v > hi THEN hi ELSE v

\* 10^4 * exp(-m) for m = 0..9, and 0 beyond.
ExpInt(m) ==
    IF m > 9 THEN 0
    ELSE <<10000, 3679, 1353, 498, 183, 67, 25, 9, 3, 1>>[m + 1]

\* 10^4 * exp(-f/16) for f = 0..15.
ExpFrac(f) ==
    <<10000, 9394, 8825, 8290, 7788, 7316, 6873, 6456,
      6065, 5698, 5353, 5028, 4724, 4437, 4169, 3916>>[f + 1]

\* 10^4 * exp(-q16/16)
ExpNeg(q16) == RoundDiv(ExpInt(q16 \div 16) * ExpFrac(q16 % 16), 10000)

\* ------------------------------------------------------------------ grids
Cells(n) == (0 .. n - 1) \X (0 .. n - 1)

\* A render target of side n cleared to the value v in every cell.
Filled(n, v) == [c \in Cells(n) |-> v]

\* Mutant of clearRT: the target is cleared with the scene background.
clearRT_background(n) == Filled(n, BgRed)

\* clearRT(rt): the target is cleared with clear colour 0x000000.
clearRT(n) == Filled(n, BlackRed)

\* Mutant of texture2D: RepeatWrapping, an index outside the grid wraps round.
texture2D_repeat(tex, x, y, n) == tex[<<x % n, y % n>>]

\* texture2D with NearestFilter and ClampToEdgeWrapping: cell (x, y) of a
\* texture of side n, an index outside the grid taking the nearest edge cell.
texture2D(tex, x, y, n) ==
    tex[<<clamp(x, 0, n - 1), clamp(y, 0, n - 1)>>]

\* ---------------------------------------------------------------- shaders
\* obstacleMask(p) at the centre p = ((2x+1)/2n, (2y+1)/2n) of cell (x, y):
\* the vertical bar 0.47 < p.x < 0.53, 0.2 < p.y < 0.8 or the horizontal bar
\* 0.47 < p.y < 0.53, 0.2 < p.x < 0.8.
obstacleMask(x, y, n) ==
    LET px == 100 * (2 * x + 1)
        py == 100 * (2 * y + 1)
        m  == 2 * n
    IN  \/ (px > 47 * m /\ px < 53 * m /\ py > 20 * m /\ py < 80 * m)
        \/ (py > 47 * m /\ py < 53 * m /\ px > 20 * m /\ px < 80 * m)

\* Mutant of waveUpdate: u_prev and u_prevPrev are exchanged.
waveUpdate_exchanged(prevTex, prevPrevTex, srcTex, x, y, n, c, damping) ==
    LET center   == texture2D(prevPrevTex, x, y, n)
        up       == texture2D(prevPrevTex, x, y + 1, n)
        down     == texture2D(prevPrevTex, x, y - 1, n)
        left     == texture2D(prevPrevTex, x - 1, y, n)
        right    == texture2D(prevPrevTex, x + 1, y, n)
        lap      == up + down + left + right - 4 * center
        prevPrev == texture2D(prevTex, x, y, n)
        src      == texture2D(srcTex, x, y, n)
    IN  Quantize((200 - damping) * 100 * center
                 - (100 - damping) * 100 * prevPrev
                 + c * c * lap
                 + 10000 * src, 10000)

\* Mutant of waveUpdate: a nine-point stencil, the diagonal neighbours too.
waveUpdate_ninePoint(prevTex, prevPrevTex, srcTex, x, y, n, c, damping) ==
    LET center   == texture2D(prevTex, x, y, n)
        lap      == texture2D(prevTex, x, y + 1, n) + texture2D(prevTex, x, y - 1, n)
                    + texture2D(prevTex, x - 1, y, n) + texture2D(prevTex, x + 1, y, n)
                    + texture2D(prevTex, x - 1, y - 1, n)
                    + texture2D(prevTex, x + 1, y - 1, n)
                    + texture2D(prevTex, x - 1, y + 1, n)
                    + texture2D(prevTex, x + 1, y + 1, n)
                    - 8 * center
        prevPrev == texture2D(prevPrevTex, x, y, n)
        src      == texture2D(srcTex, x, y, n)
    IN  Quantize((200 - damping) * 100 * center
                 - (100 - damping) * 100 * prevPrev
                 + c * c * lap
                 + 10000 * src, 10000)

\* The update of a cell that is no obstacle, before the clamp:
\* (2 - u_damping) * center - (1 - u_damping) * prevPrev + u_c^2 * lap + src.
waveUpdate(prevTex, prevPrevTex, srcTex, x, y, n, c, damping) ==
    LET center   == texture2D(prevTex, x, y, n)
        up       == texture2D(prevTex, x, y + 1, n)
        down     == texture2D(prevTex, x, y - 1, n)
        left     == texture2D(prevTex, x - 1, y, n)
        right    == texture2D(prevTex, x + 1, y, n)
        lap      == up + down + left + right - 4 * center
        prevPrev == texture2D(prevPrevTex, x, y, n)
        src      == texture2D(srcTex, x, y, n)
    IN  Quantize((200 - damping) * 100 * center
                 - (100 - damping) * 100 * prevPrev
                 + c * c * lap
                 + 10000 * src, 10000)

\* Mutant of simFragment: the obstacle branch is missing.
simFragment_noPin(prevTex, prevPrevTex, srcTex, x, y, n, c, damping) ==
    clamp(waveUpdate(prevTex, prevPrevTex, srcTex, x, y, n, c, damping),
          -ClampB * Scale, ClampB * Scale)

\* Mutant of simFragment: the clamp is missing.
simFragment_noClamp(prevTex, prevPrevTex, srcTex, x, y, n, c, damping) ==
    IF obstacleMask(x, y, n)
    THEN 0
    ELSE waveUpdate(prevTex, prevPrevTex, srcTex, x, y, n, c, damping)

\* simMaterial.fragmentShader main() for the fragment of cell (x, y).
simFragment(prevTex, prevPrevTex, srcTex, x, y, n, c, damping) ==
    IF obstacleMask(x, y, n)
    THEN 0
    ELSE clamp(waveUpdate(prevTex, prevPrevTex, srcTex, x, y, n, c, damping),
               -ClampB * Scale, ClampB * Scale)

\* Mutant of sourceFragment: the Gaussian factor is missing.
sourceFragment_flat(src, x, y, n) == src.strength

\* Mutant of sourceFragment: the Gaussian is cut to 0 beyond 3 radii.
sourceFragment_cutoff(src, x, y, n) ==
    LET ax  == 50 * (2 * x + 1) - n * src.uvx
        ay  == 50 * (2 * y + 1) - n * src.uvy
        den == (n * src.radius) * (n * src.radius)
        q16 == (16 * (ax * ax + ay * ay)) \div den
        v   == RoundDiv(src.strength * ExpNeg(q16), 10000)
    IN  IF q16 > 16 * 9 \/ src.strength = 0 THEN 0
        ELSE IF v = 0 THEN (IF src.strength > 0 THEN 1 ELSE -1)
        ELSE v

\* sourceMaterial.fragmentShader main() for the fragment of cell (x, y):
\* exp(-(d*d) / (u_radius*u_radius)) * u_strength, d the distance from the
\* cell centre to u_center.
sourceFragment(src, x, y, n) ==
    LET ax  == 50 * (2 * x + 1) - n * src.uvx
        ay  == 50 * (2 * y + 1) - n * src.uvy
        den == (n * src.radius) * (n * src.radius)
        q16 == (16 * (ax * ax + ay * ay)) \div den
        v   == RoundFloat(RoundDiv(src.strength * ExpNeg(q16), 10000))
    IN  IF q16 >= 16 * ExpUnderflow \/ src.strength = 0 THEN 0
        ELSE IF v = 0 THEN (IF src.strength > 0 THEN 1 ELSE -1)
        ELSE v

\* Mutant of drawSource: NormalBlending, the impulse replaces what rt held.
drawSource_overwrite(rt, src, n) ==
    [c \in Cells(n) |-> sourceFragment(src, c[1], c[2], n)]

\* One renderer.render(sourceScene, simCamera) into rt with AdditiveBlending.
drawSource(rt, src, n) ==
    [c \in Cells(n) |-> RoundFloat(rt[c] + sourceFragment(src, c[1], c[2], n))]

\* Mutant of drawSources: only the first pending impulse is drawn.
drawSources_firstOnly(rt, pending, n) ==
    IF pending = <<>> THEN rt ELSE drawSource(rt, Head(pending), n)

\* for (const src of pendingSources) { ... render ... }
RECURSIVE drawSources(_, _, _)
drawSources(rt, pending, n) ==
    IF pending = <<>> THEN rt
    ELSE drawSources(drawSource(rt, Head(pending), n), Tail(pending), n)

\* Mutant of sourcePass: sourceRT is not cleared before the impulses are drawn.
sourcePass_noClear(old, pending, n) == drawSources(old, pending, n)

\* Steps 1) and 2) of stepSimulation: sourceRT, whatever it held, is cleared
\* to black and every pending impulse is drawn into it.
sourcePass(old, pending, n) == drawSources(clearRT(n), pending, n)

\* Mutant of setLength: the array keeps its elements.
setLength_kept(array, len) == array

\* array.length = len, for len no longer than the array.
setLength(array, len) == SubSeq(array, 1, len)

\* renderer.render(simScene, simCamera) into a target of side n.
simPass(prevTex, prevPrevTex, srcTex, n, c, damping) ==
    [cell \in Cells(n) |->
        simFragment(prevTex, prevPrevTex, srcTex, cell[1], cell[2], n, c, damping)]

\* Mutant of rotateTargets: rtPrev is not saved before it is overwritten.
rotateTargets_unsaved(prev, curr, temp) ==
    [rtPrev |-> curr, rtCurr |-> temp, rtTemp |-> curr]

\* Mutant of rotateTargets: rtCurr and rtTemp are exchanged, rtPrev is kept.
rotateTargets_pingPong(prev, curr, temp) ==
    [rtPrev |-> prev, rtCurr |-> temp, rtTemp |-> curr]

\* Mutant of rotateTargets: rtTemp is not reassigned.
rotateTargets_tempKept(prev, curr, temp) ==
    [rtPrev |-> curr, rtCurr |-> temp, rtTemp |-> temp]

\* 4) Rotate targets: newPrev = oldCurr, newCurr = rtTemp, newTemp = oldPrev.
rotateTargets(prev, curr, temp) ==
    LET oldPrev == prev
    IN  [rtPrev |-> curr, rtCurr |-> temp, rtTemp |-> oldPrev]

\* ------------------------------------------------------------------ state
VARIABLES
    targets,        \* contents of the three physical render targets 1, 2, 3
    rtCurr,         \* the target that holds u^t
    rtPrev,         \* the target that holds u^{t-1}
    rtTemp,         \* the target the next compute pass writes
    sourceRT,       \* contents of the impulse target
    pendingSources, \* impulses pushed since the last step
    u_prev,         \* simMaterial.uniforms.u_prev: a target
    u_prevPrev,     \* simMaterial.uniforms.u_prevPrev: a target
    u_heightMap,    \* pointsMaterial.uniforms.u_heightMap: a target
    sampled,        \* the target the last scene render sampled (0: none yet)
    steps,          \* animation frames run so far
    enqueued,       \* whether a pointer event has ever pushed an impulse
    \* src/main.js, the viewer of the closed-form field:
    model,                \* the GLB root, "null" until the loader succeeds
    loading,              \* whether loader.load has not called back yet
    currentMaterialMode,  \* the material mode remembered
    materialSelectValue,  \* materialSelect.value, the mode selected in the page
    childMaterial,        \* child.material of every child of the GLB scene
    boundsMin,            \* lower corner of the bounds, per axis
    boundsMax,            \* upper corner of the bounds, per axis
    source2Pos,           \* position of source 2, per axis
    source2Velocity,      \* velocity of source 2, per axis
    moved,                \* source2Pos as the last frame moved it, before the bounce
    frames                \* frames of the viewer run so far

simVars == <<targets, rtCurr, rtPrev, rtTemp, sourceRT, pendingSources,
             u_prev, u_prevPrev, u_heightMap, sampled, steps, enqueued>>

appVars == <<model, loading, currentMaterialMode, materialSelectValue,
             childMaterial, boundsMin, boundsMax, source2Pos, source2Velocity,
             moved, frames>>

vars == <<simVars, appVars>>

Targets == 1 .. 3

\* Where a pointer ray can hit the click plane, (uv.x, 1 - uv.y) in
\* hundredths: the centre of the grid, and a point near the centre of the
\* corner cell.
PointerHits == {<<50, 50>>, <<17, 20>>}

\* ---- src/main.js: the state after the module has been evaluated
\* Positions are counted in hundredths of a world unit, velocities in
\* hundredths of a unit per second, slider values in slider steps.
Axes == {"x", "y", "z"}
\* DEFAULT_RANGE = 6
DEFAULT_RANGE == 600
\* Children of the GLB scene explored: child 1 is a group, the others meshes.
MaxChildren == 3
Children == 1 .. MaxChildren
isMesh(child) == child > 1

\* mapSliderToBounds(v, min, max): min + (max - min) * (v + 100) / 200
mapSliderToBounds(v, min, max) == min + RoundDiv((max - min) * (v + 100), 200)

\* updateSource2FromSliders(): the position the three sliders of source 2 give.
updateSource2FromSliders(sliders, bmin, bmax) ==
    [axis \in Axes |-> mapSliderToBounds(sliders[axis], bmin[axis], bmax[axis])]

\* The module's top-level code, for the values the page gives the sliders
\* of source 2.
AppInit(sliders) ==
    /\ model = "null"
    /\ loading = TRUE
    /\ currentMaterialMode = "gridTransparent"
    /\ materialSelectValue = "gridTransparent"
    /\ childMaterial = [child \in Children |-> "original"]
    /\ boundsMin = [axis \in Axes |-> -DEFAULT_RANGE]
    /\ boundsMax = [axis \in Axes |-> DEFAULT_RANGE]
    /\ source2Pos = updateSource2FromSliders(sliders,
                        [axis \in Axes |-> -DEFAULT_RANGE],
                        [axis \in Axes |-> DEFAULT_RANGE])
    /\ source2Velocity = [x |-> -120, y |-> 40, z |-> -140]
    /\ moved = source2Pos
    /\ frames = 0

\* The viewer of src/main.js idle, its sliders in the middle.
AppIdle == AppInit([axis \in Axes |-> 0])

\* ---- src/unnamed/part_001
Init ==
    /\ rtCurr = 1
    /\ rtPrev = 2
    /\ rtTemp = 3
    /\ targets = [t \in Targets |-> clearRT(SIM_SIZE)]
    /\ sourceRT = clearRT(SIM_SIZE)
    /\ pendingSources = <<>>
    /\ u_prev = 1
    /\ u_prevPrev = 2
    /\ u_heightMap = 1
    /\ sampled = 0
    /\ steps = 0
    /\ enqueued = FALSE
    /\ AppIdle

\* The impulse onPointerDown pushes for a hit at uv.
pointerImpulse(uv) ==
    [uvx |-> uv[1], uvy |-> uv[2],
     strength |-> PointerStrength, radius |-> PointerRadius]

\* pendingSources.push(src)
pushed(pending, src) == Append(pending, src)

\* onPointerDown(event): a ray that hits the click plane pushes an impulse,
\* a ray that misses it changes nothing.
onPointerDown(hit, uv) ==
    /\ Len(pendingSources) < MaxPending
    /\ IF hit
       THEN /\ pendingSources' = pushed(pendingSources, pointerImpulse(uv))
            /\ enqueued' = TRUE
       ELSE UNCHANGED <<pendingSources, enqueued>>
    /\ UNCHANGED <<targets, rtCurr, rtPrev, rtTemp, sourceRT,
                   u_prev, u_prevPrev, u_heightMap, sampled, steps>>
    /\ UNCHANGED appVars

\* Mutant of stepSimulation: the height map is set before the rotation.
stepSimulation_earlyHeightMap ==
    LET drawn == sourcePass(sourceRT, pendingSources, SIM_SIZE)
        out   == simPass(targets[u_prev'], targets[u_prevPrev'], drawn,
                         SIM_SIZE, u_c, u_damping)
        rot   == rotateTargets(rtPrev, rtCurr, rtTemp)
    IN  /\ sourceRT' = drawn
        /\ pendingSources' = setLength(pendingSources, 0)
        /\ u_prev' = rtCurr
        /\ u_prevPrev' = rtPrev
        /\ targets' = [targets EXCEPT ![rtTemp] = out]
        /\ u_heightMap' = rtCurr
        /\ rtPrev' = rot.rtPrev
        /\ rtCurr' = rot.rtCurr
        /\ rtTemp' = rot.rtTemp

\* Mutant of stepSimulation: the compute pass runs before the impulses are
\* drawn, and reads what sourceRT held from the step before.
stepSimulation_staleSource ==
    LET drawn == sourcePass(sourceRT, pendingSources, SIM_SIZE)
        out   == simPass(targets[u_prev'], targets[u_prevPrev'], sourceRT,
                         SIM_SIZE, u_c, u_damping)
        rot   == rotateTargets(rtPrev, rtCurr, rtTemp)
    IN  /\ sourceRT' = drawn
        /\ pendingSources' = setLength(pendingSources, 0)
        /\ u_prev' = rtCurr
        /\ u_prevPrev' = rtPrev
        /\ targets' = [targets EXCEPT ![rtTemp] = out]
        /\ rtPrev' = rot.rtPrev
        /\ rtCurr' = rot.rtCurr
        /\ rtTemp' = rot.rtTemp
        /\ u_heightMap' = rot.rtCurr

\* Mutant of stepSimulation: the compute pass renders into rtPrev, one of
\* the targets it reads, as in a two-target scheme.
stepSimulation_writesPrev ==
    LET drawn == sourcePass(sourceRT, pendingSources, SIM_SIZE)
        out   == simPass(targets[u_prev'], targets[u_prevPrev'], drawn,
                         SIM_SIZE, u_c, u_damping)
        rot   == rotateTargets(rtPrev, rtCurr, rtTemp)
    IN  /\ sourceRT' = drawn
        /\ pendingSources' = setLength(pendingSources, 0)
        /\ u_prev' = rtCurr
        /\ u_prevPrev' = rtPrev
        /\ targets' = [targets EXCEPT ![rtPrev] = out]
        /\ rtPrev' = rot.rtPrev
        /\ rtCurr' = rot.rtCurr
        /\ rtTemp' = rot.rtTemp
        /\ u_heightMap' = rot.rtCurr

\* Mutant of stepSimulation: the compute pass covers the grid but for its
\* last row, whose cells keep what rtTemp held.
stepSimulation_scissored ==
    LET drawn == sourcePass(sourceRT, pendingSources, SIM_SIZE)
        out   == simPass(targets[u_prev'], targets[u_prevPrev'], drawn,
                         SIM_SIZE, u_c, u_damping)
        rot   == rotateTargets(rtPrev, rtCurr, rtTemp)
    IN  /\ sourceRT' = drawn
        /\ pendingSources' = setLength(pendingSources, 0)
        /\ u_prev' = rtCurr
        /\ u_prevPrev' = rtPrev
        /\ targets' = [targets EXCEPT ![rtTemp] =
                          [cell \in Cells(SIM_SIZE) |->
                              IF cell[2] = SIM_SIZE - 1 THEN @[cell]
                              ELSE out[cell]]]
        /\ rtPrev' = rot.rtPrev
        /\ rtCurr' = rot.rtCurr
        /\ rtTemp' = rot.rtTemp
        /\ u_heightMap' = rot.rtCurr

\* stepSimulation()
stepSimulation ==
    LET drawn == sourcePass(sourceRT, pendingSources, SIM_SIZE)
        out   == simPass(targets[u_prev'], targets[u_prevPrev'], drawn,
                         SIM_SIZE, u_c, u_damping)
        rot   == rotateTargets(rtPrev, rtCurr, rtTemp)
    IN  /\ sourceRT' = drawn
        /\ pendingSources' = setLength(pendingSources, 0)
        /\ u_prev' = rtCurr
        /\ u_prevPrev' = rtPrev
        /\ targets' = [targets EXCEPT ![rtTemp] = out]
        /\ rtPrev' = rot.rtPrev
        /\ rtCurr' = rot.rtCurr
        /\ rtTemp' = rot.rtTemp
        /\ u_heightMap' = rot.rtCurr

\* animate(): stepSimulation(), then renderer.render(scene, camera), which
\* samples the height map.
animate ==
    /\ steps < MaxSteps
    /\ stepSimulation
    /\ sampled' = u_heightMap'
    /\ steps' = steps + 1
    /\ UNCHANGED <<enqueued, appVars>>

Next ==
    \/ animate
    \/ \E hit \in BOOLEAN, uv \in PointerHits : onPointerDown(hit, uv)

Spec == Init /\ [][Next]_vars

\* ----------------------------------------------------------------- claims
\* The cells of the simulated grid.
Grid == Cells(SIM_SIZE)

\* The transition is a frame: stepSimulation() has run once.
IsStep == steps' = steps + 1

\* The clamp bound in field units.
B == ClampB * Scale

\* Largest |value| of a field.
Peak(g) ==
    LET mags == {Abs(g[c]) : c \in DOMAIN g}
    IN  CHOOSE m \in mags : \A k \in mags : k <= m

IsObstacle(c) == obstacleMask(c[1], c[2], SIM_SIZE)

\* C1: after any step, every cell where the obstacle mask is true is exactly
\* 0 in the target that holds role current, whatever impulses were pending.
C1_ObstaclePinned ==
    steps > 0 => \A c \in Grid : IsObstacle(c) => targets[rtCurr][c] = 0

\* C1 witness: a step has rasterized an impulse onto an obstacle cell, and
\* the cell is 0 in current.
C1_Witness ==
    /\ steps > 0
    /\ \E c \in Grid :
          IsObstacle(c) /\ sourceRT[c] = PointerStrength /\ targets[rtCurr][c] = 0

\* C2: in every reachable state the roles previous, current and next are
\* bound to three pairwise distinct physical targets.
C2_RolesDistinct ==
    /\ {rtPrev, rtCurr, rtTemp} \subseteq Targets
    /\ rtPrev # rtCurr
    /\ rtCurr # rtTemp
    /\ rtPrev # rtTemp

\* C2 witness: two rotations have happened.
C2_Witness == steps = 2 /\ rtCurr = 2 /\ rtPrev = 3 /\ rtTemp = 1

\* C3: a step relabels: old previous becomes next, old current becomes
\* previous, the target just written becomes current; the same three targets
\* stay bound, and no target but the one written changes its contents.
C3_RotationRelabels ==
    [][IsStep =>
          /\ rtTemp' = rtPrev
          /\ rtPrev' = rtCurr
          /\ rtCurr' = rtTemp
          /\ {rtPrev', rtCurr', rtTemp'} = {rtPrev, rtCurr, rtTemp}
          /\ DOMAIN targets' = DOMAIN targets
          /\ \A t \in Targets \ {rtTemp} : targets'[t] = targets[t]]_vars

\* C3 witness: after three steps the roles are back on their first targets,
\* with a field that is not zero.
C3_Witness ==
    /\ steps = 3
    /\ rtCurr = 1 /\ rtPrev = 2 /\ rtTemp = 3
    /\ \E c \in Grid : targets[rtCurr][c] # 0 /\ targets[rtPrev][c] # 0

SpecNeighbour(field, x, y) ==
    field[<<IF x < 0 THEN 0 ELSE IF x > SIM_SIZE - 1 THEN SIM_SIZE - 1 ELSE x,
            IF y < 0 THEN 0 ELSE IF y > SIM_SIZE - 1 THEN SIM_SIZE - 1 ELSE y>>]

SpecLaplacian(current, c) ==
    SpecNeighbour(current, c[1] + 1, c[2]) + SpecNeighbour(current, c[1] - 1, c[2])
    + SpecNeighbour(current, c[1], c[2] + 1) + SpecNeighbour(current, c[1], c[2] - 1)
    - 4 * current[c]

SpecUpdate(current, previous, source, c) ==
    LET exact == (200 - u_damping) * 100 * current[c]
                 - (100 - u_damping) * 100 * previous[c]
                 + u_c * u_c * SpecLaplacian(current, c)
                 + 10000 * source[c]
        v     == Quantize(exact, 10000)
    IN  IF v > B THEN B ELSE IF v < -B THEN -B ELSE v

\* C5: for every cell that is no obstacle, a step writes the clamped update
\* computed from the targets that hold current and previous when the step
\* starts and from the source rasterized in the step.
C5_UpdateFormula ==
    [][IsStep =>
          \A c \in Grid :
              ~IsObstacle(c) =>
                  targets'[rtCurr'][c] =
                      SpecUpdate(targets[rtCurr], targets[rtPrev], sourceRT', c)]_vars

\* C5 witness: after a step, a cell that is no obstacle where current,
\* previous, the Laplacian and the source all contributed and the clamp did
\* not act (rtPrev and rtTemp now hold what the step read as current and
\* previous).
C5_Witness ==
    /\ steps >= 3
    /\ \E c \in Grid :
          /\ ~IsObstacle(c)
          /\ targets[rtPrev][c] # 0
          /\ targets[rtTemp][c] # 0
          /\ SpecLaplacian(targets[rtPrev], c) # 0
          /\ sourceRT[c] # 0
          /\ Abs(targets[rtCurr][c]) < B
          /\ targets[rtCurr][c] # 0

\* C6: within a step the target written is neither of the two targets read,
\* which are the targets that hold current and previous, and the step leaves
\* the contents of both unchanged.
C6_WriteTargetSeparate ==
    [][IsStep =>
          /\ u_prev' = rtCurr
          /\ u_prevPrev' = rtPrev
          /\ rtTemp # u_prev'
          /\ rtTemp # u_prevPrev'
          /\ targets'[rtCurr] = targets[rtCurr]
          /\ targets'[rtPrev] = targets[rtPrev]]_vars

\* C6 witness: a step has written a field that differs from both fields it
\* read, and both are still there.
C6_Witness ==
    /\ steps >= 2
    /\ u_prev = rtPrev
    /\ u_prevPrev = rtTemp
    /\ \E c \in Grid : targets[rtPrev][c] # 0 /\ targets[rtCurr][c] # targets[rtPrev][c]
    /\ \E c \in Grid : targets[rtTemp][c] # 0 /\ targets[rtCurr][c] # targets[rtTemp][c]

C8_ZeroStaysZero ==
    ~enqueued => \A c \in Grid : targets[rtCurr][c] = 0

\* C8 witness: several steps have run without any impulse.
C8_Witness ==
    /\ steps >= 2
    /\ ~enqueued
    /\ \A c \in Grid : targets[rtCurr][c] = 0

\* C9: after every step every cell of current lies in [-B, B].
C9_ClampRange ==
    steps > 0 => \A c \in Grid : -B <= targets[rtCurr][c] /\ targets[rtCurr][c] <= B

\* C9 witness: the update of a cell exceeded B and the cell holds B (rtPrev
\* and rtTemp hold what the step read as current and previous).
C9_Witness ==
    /\ steps > 0
    /\ \E c \in Grid :
          /\ targets[rtCurr][c] = B
          /\ waveUpdate(targets[rtPrev], targets[rtTemp], sourceRT,
                        c[1], c[2], SIM_SIZE, u_c, u_damping) > B

\* C10 as stated: with damping > 0, a step that has no pending impulse does
\* not raise the peak |value| of the current field.
C10_PeakNonIncreasing ==
    [][IsStep /\ pendingSources = <<>> /\ u_damping > 0 =>
          Peak(targets'[rtCurr']) <= Peak(targets[rtCurr])]_vars

\* C10 amended: with damping > 0, a step that has no pending impulse yields
\* a peak of at most (2 - damping + 8 * waveSpeed^2) * peak(current)
\* + (1 - damping) * peak(previous), up to one unit of rounding, and at most B.
C10_PeakGrowthBounded ==
    [][IsStep /\ pendingSources = <<>> /\ u_damping > 0 =>
          /\ Peak(targets'[rtCurr']) <= B
          /\ 10000 * Peak(targets'[rtCurr']) <=
                ((200 - u_damping) * 100 + 8 * u_c * u_c) * Peak(targets[rtCurr])
                + (100 - u_damping) * 100 * Peak(targets[rtPrev])
                + 10000]_vars

\* C10 witness: a step without impulses has raised the peak.
C10_Witness ==
    /\ steps >= 2
    /\ \A c \in Grid : sourceRT[c] = 0
    /\ Peak(targets[rtCurr]) > Peak(targets[rtPrev])

\* C12: the height map handed to the renderer is always the target with role
\* current; a step makes it the target just written, and between steps
\* neither its contents nor the role bindings change, impulses or not.
C12_CurrentFieldStable ==
    /\ u_heightMap = rtCurr
    /\ [][/\ u_heightMap' = rtCurr'
          /\ IsStep => u_heightMap' = rtTemp /\ sampled' = rtCurr'
          /\ ~IsStep =>
                /\ UNCHANGED <<u_heightMap, rtCurr, rtPrev, rtTemp>>
                /\ targets'[u_heightMap'] = targets[u_heightMap]]_vars

\* C12 witness: after a step that wrote a field, an impulse is waiting and
\* the height map is still the current target the renderer sampled.
C12_Witness ==
    /\ steps >= 1
    /\ Len(pendingSources) > 0
    /\ u_heightMap = rtCurr
    /\ sampled = rtCurr
    /\ \E c \in Grid : targets[u_heightMap][c] # 0

\* C17: before the first step the height map is the current target and every
\* cell of it is 0.
C17_InitialFieldZero ==
    steps = 0 => /\ u_heightMap = rtCurr
                 /\ \A c \in Grid : targets[u_heightMap][c] = 0

\* C17 witness: no step has run, an impulse is already waiting, and the
\* field read is all zero.
C17_Witness ==
    /\ steps = 0
    /\ Len(pendingSources) > 0
    /\ \A c \in Grid : targets[u_heightMap][c] = 0

\* The axis neighbours of cell c that lie inside the grid.
InGridNeighbours(c) ==
    {d \in Grid : \/ (d[1] = c[1] /\ Abs(d[2] - c[2]) = 1)
                  \/ (d[2] = c[2] /\ Abs(d[1] - c[1]) = 1)}

RECURSIVE SumOver(_, _)
SumOver(field, cells) ==
    IF cells = {} THEN 0
    ELSE LET d == CHOOSE e \in cells : TRUE
         IN  field[d] + SumOver(field, cells \ {d})

\* The update with a zero-gradient boundary: the Laplacian of a cell counts
\* only its neighbours inside the grid, each against the cell itself.
ZeroGradientUpdate(current, previous, source, c) ==
    LET inside == InGridNeighbours(c)
        lap    == SumOver(current, inside) - Cardinality(inside) * current[c]
        v      == Quantize((200 - u_damping) * 100 * current[c]
                           - (100 - u_damping) * 100 * previous[c]
                           + u_c * u_c * lap
                           + 10000 * source[c], 10000)
    IN  IF v > B THEN B ELSE IF v < -B THEN -B ELSE v

\* C19: a neighbour lookup outside the grid reads the nearest cell of the
\* same row or column: the update of every cell is the one of a zero-gradient
\* boundary, in which no cell of the opposite edge takes part.
C19_RepeatEdge ==
    [][IsStep =>
          \A c \in Grid :
              ~IsObstacle(c) =>
                  targets'[rtCurr'][c] =
                      ZeroGradientUpdate(targets[rtCurr], targets[rtPrev],
                                         sourceRT', c)]_vars

\* C19 witness: a step without source has read a corner cell that was not 0,
\* and the corner at the other end of its row is still 0.
C19_Witness ==
    /\ steps >= 2
    /\ \A c \in Grid : sourceRT[c] = 0
    /\ targets[rtPrev][<<0, 0>>] # 0
    /\ targets[rtCurr][<<0, 0>>] # 0
    /\ targets[rtCurr][<<SIM_SIZE - 1, 0>>] = 0

RECURSIVE SourceSum(_, _)
SourceSum(pending, c) ==
    IF pending = <<>> THEN 0
    ELSE sourceFragment(Head(pending), c[1], c[2], SIM_SIZE)
         + SourceSum(Tail(pending), c)

OpenPending == 1
\* Steps of the open grid explored.
OpenSteps == 2

OpenSizes == {3, 9, 11}
OpenCenters == {<<50, 50>>, <<17, 20>>}
OpenRadii == {-10, 3, 10, 15}
OpenStrengths == {Scale, 3 * Scale}

\* The side of a square texture.
sideOf(tex) == CHOOSE n \in OpenSizes \cup {1, SIM_SIZE} : DOMAIN tex = Cells(n)

\* simMaterial.fragmentShader main() past the obstacle branch: the fragment
\* of a cell the mask does not cover.
simFragmentOpen(prevTex, prevPrevTex, srcTex, x, y, n, c, damping) ==
    clamp(waveUpdate(prevTex, prevPrevTex, srcTex, x, y, n, c, damping),
          -ClampB * Scale, ClampB * Scale)

\* renderer.render(simScene, simCamera) when the mask covers no cell.
simPassOpen(prevTex, prevPrevTex, srcTex, n, c, damping) ==
    [cell \in Cells(n) |->
        simFragmentOpen(prevTex, prevPrevTex, srcTex, cell[1], cell[2], n, c, damping)]

InitOpen ==
    /\ rtCurr = 1
    /\ rtPrev = 2
    /\ rtTemp = 3
    /\ \E n \in OpenSizes :
          /\ targets = [t \in Targets |-> clearRT(n)]
          /\ sourceRT = clearRT(n)
    /\ pendingSources = <<>>
    /\ u_prev = 1
    /\ u_prevPrev = 2
    /\ u_heightMap = 1
    /\ sampled = 0
    /\ steps = 0
    /\ enqueued = FALSE
    /\ AppIdle

\* An impulse with the given centre, radius and strength is pushed, before
\* the first step.
injectImpulse(uv, radius, strength) ==
    /\ steps = 0
    /\ Len(pendingSources) < OpenPending
    /\ pendingSources' = pushed(pendingSources,
            [uvx |-> uv[1], uvy |-> uv[2], strength |-> strength, radius |-> radius])
    /\ enqueued' = TRUE
    /\ UNCHANGED <<targets, rtCurr, rtPrev, rtTemp, sourceRT,
                   u_prev, u_prevPrev, u_heightMap, sampled, steps>>
    /\ UNCHANGED appVars

\* stepSimulation() on the open grid, with u_damping = 0.
stepOpen ==
    LET n     == sideOf(sourceRT)
        drawn == sourcePass(sourceRT, pendingSources, n)
        out   == simPassOpen(targets[u_prev'], targets[u_prevPrev'], drawn,
                             n, u_c, 0)
        rot   == rotateTargets(rtPrev, rtCurr, rtTemp)
    IN  /\ sourceRT' = drawn
        /\ pendingSources' = setLength(pendingSources, 0)
        /\ u_prev' = rtCurr
        /\ u_prevPrev' = rtPrev
        /\ targets' = [targets EXCEPT ![rtTemp] = out]
        /\ rtPrev' = rot.rtPrev
        /\ rtCurr' = rot.rtCurr
        /\ rtTemp' = rot.rtTemp
        /\ u_heightMap' = rot.rtCurr

\* animate() on the open grid.
animateOpen ==
    /\ steps < OpenSteps
    /\ stepOpen
    /\ sampled' = u_heightMap'
    /\ steps' = steps + 1
    /\ UNCHANGED <<enqueued, appVars>>

NextOpen ==
    \/ animateOpen
    \/ \E uv \in OpenCenters, radius \in OpenRadii, strength \in OpenStrengths :
          injectImpulse(uv, radius, strength)

SpecOpen == InitOpen /\ [][NextOpen]_vars

\* The side of the open grid of the state, and its centre cell.
OpenSide == sideOf(sourceRT)
CentreCell == <<(OpenSide - 1) \div 2, (OpenSide - 1) \div 2>>

\* The source field of a single impulse on the grid of the state.
SingleSource(imp) == drawSource(clearRT(OpenSide), imp, OpenSide)

\* The impulse of the 3x3 scenario: centre (0.5, 0.5), radius 0.15, strength 1.
Impulse3x3 == [uvx |-> 50, uvy |-> 50, strength |-> Scale, radius |-> 15]

\* The first step of the 3x3 scenario has run.
After3x3Step1 ==
    /\ steps = 1
    /\ OpenSide = 3
    /\ sourceRT = SingleSource(Impulse3x3)

\* The second step of the 3x3 scenario, without an impulse, has run.
After3x3Step2 ==
    /\ steps = 2
    /\ OpenSide = 3
    /\ \A c \in Cells(3) : sourceRT[c] = 0 /\ targets[rtTemp][c] = 0
    /\ targets[rtPrev] = SingleSource(Impulse3x3)

EdgeMidpoints == {<<1, 0>>, <<0, 1>>, <<2, 1>>, <<1, 2>>}
Corners == {<<0, 0>>, <<2, 0>>, <<0, 2>>, <<2, 2>>}

ImpulseLocal == [uvx |-> 50, uvy |-> 50, strength |-> Scale, radius |-> 10]

\* One step has rasterized that impulse into an all-zero grid of side >= 9.
AfterLocalStep ==
    /\ steps = 1
    /\ OpenSide >= 9
    /\ sourceRT = SingleSource(ImpulseLocal)

\* The cells whose centre is farther than 3 radii from (0.5, 0.5).
FarCells ==
    {c \in Cells(OpenSide) :
        (50 * (2 * c[1] + 1) - 50 * OpenSide) * (50 * (2 * c[1] + 1) - 50 * OpenSide)
        + (50 * (2 * c[2] + 1) - 50 * OpenSide) * (50 * (2 * c[2] + 1) - 50 * OpenSide)
        > 9 * (OpenSide * ImpulseLocal.radius) * (OpenSide * ImpulseLocal.radius)}

SizedSides == {1, 3}

InitSized ==
    /\ rtCurr = 1
    /\ rtPrev = 2
    /\ rtTemp = 3
    /\ \E n \in SizedSides :
          /\ targets = [t \in Targets |-> clearRT(n)]
          /\ sourceRT = clearRT(n)
    /\ pendingSources = <<>>
    /\ u_prev = 1
    /\ u_prevPrev = 2
    /\ u_heightMap = 1
    /\ sampled = 0
    /\ steps = 0
    /\ enqueued = FALSE
    /\ AppIdle

\* stepSimulation() at the side of the state's targets.
stepSized ==
    LET n     == sideOf(sourceRT)
        drawn == sourcePass(sourceRT, pendingSources, n)
        out   == simPass(targets[u_prev'], targets[u_prevPrev'], drawn,
                         n, u_c, u_damping)
        rot   == rotateTargets(rtPrev, rtCurr, rtTemp)
    IN  /\ sourceRT' = drawn
        /\ pendingSources' = setLength(pendingSources, 0)
        /\ u_prev' = rtCurr
        /\ u_prevPrev' = rtPrev
        /\ targets' = [targets EXCEPT ![rtTemp] = out]
        /\ rtPrev' = rot.rtPrev
        /\ rtCurr' = rot.rtCurr
        /\ rtTemp' = rot.rtTemp
        /\ u_heightMap' = rot.rtCurr

\* animate() at the side of the state's targets.
animateSized ==
    /\ steps < MaxSteps
    /\ stepSized
    /\ sampled' = u_heightMap'
    /\ steps' = steps + 1
    /\ UNCHANGED <<enqueued, appVars>>

NextSized ==
    \/ animateSized
    \/ \E hit \in BOOLEAN, uv \in PointerHits : onPointerDown(hit, uv)

SpecSized == InitSized /\ [][NextSized]_vars

\* The obstacle mask is true for every cell of the state's grid.
MaskCoversGrid ==
    \A c \in Cells(sideOf(sourceRT)) : obstacleMask(c[1], c[2], sideOf(sourceRT))

\* C16: when the obstacle mask is true for every cell, the current field is
\* all zero after every step, whatever impulses were enqueued.
C16_FullMaskStaysZero ==
    MaskCoversGrid /\ steps > 0 =>
        \A c \in Cells(sideOf(sourceRT)) : targets[rtCurr][c] = 0

\* C16 witness: on the fully masked grid, steps have run, the last one with
\* two impulses rasterized onto the cell, and the field is 0.
C16_Witness ==
    /\ MaskCoversGrid
    /\ steps >= 2
    /\ sourceRT[<<0, 0>>] = 2 * PointerStrength
    /\ targets[rtCurr][<<0, 0>>] = 0

C21_FrameOrder ==
    /\ sampled \in {0, rtCurr}
    /\ [][/\ IsStep =>
                /\ sourceRT' = sourcePass(sourceRT, pendingSources, SIM_SIZE)
                /\ pendingSources' = <<>>
                /\ targets'[rtTemp] =
                       simPass(targets[rtCurr], targets[rtPrev], sourceRT',
                               SIM_SIZE, u_c, u_damping)
                /\ rtCurr' = rtTemp
                /\ rtPrev' = rtCurr
                /\ sampled' = rtCurr'
          /\ ~IsStep => UNCHANGED <<rtCurr, rtPrev, rtTemp, sampled, steps>>]_vars

\* C21 witness: a frame has rasterized an impulse on top of a field that was
\* already moving, and the renderer sampled the target it wrote.
C21_Witness ==
    /\ steps >= 2
    /\ sampled = rtCurr
    /\ pendingSources = <<>>
    /\ \E c \in Grid :
          /\ sourceRT[c] # 0
          /\ targets[rtPrev][c] # 0
          /\ targets[rtCurr][c] # targets[rtPrev][c]

\* C22: a step changes the contents of no target but the one that holds role
\* next when it starts; the new previous holds, cell for cell, what the old
\* current held, and the target of the old previous is unmodified.
C22_OnlyNextWritten ==
    [][IsStep =>
          /\ \A t \in Targets : targets'[t] # targets[t] => t = rtTemp
          /\ \A c \in Grid : targets'[rtPrev'][c] = targets[rtCurr][c]
          /\ \A c \in Grid : targets'[rtPrev][c] = targets[rtPrev][c]]_vars

\* C22 witness: three steps have run and the three targets hold three
\* different fields, none of them zero.
C22_Witness ==
    /\ steps >= 3
    /\ targets[rtPrev] # targets[rtCurr]
    /\ targets[rtTemp] # targets[rtCurr]
    /\ targets[rtTemp] # targets[rtPrev]
    /\ \A t \in Targets : \E c \in Grid : targets[t][c] # 0

\* C23: in every reachable state every obstacle cell is 0 in each of the
\* three targets, whichever role the target holds.
C23_ObstaclesZeroInAllTargets ==
    \A t \in Targets : \A c \in Grid : IsObstacle(c) => targets[t][c] = 0

\* C23 witness: every target has been written with a field that is not zero,
\* the last step rasterized an impulse onto an obstacle cell, and the cell is
\* 0 in the three targets.
C23_Witness ==
    /\ steps >= 3
    /\ \A t \in Targets : \E c \in Grid : targets[t][c] # 0
    /\ \E c \in Grid :
          /\ IsObstacle(c)
          /\ sourceRT[c] > 0
          /\ \A t \in Targets : targets[t][c] = 0

\* C24: a step that starts with an empty pending queue leaves the source
\* target all zero, whatever it held, and its update has source term 0.
C24_SourceResetEachStep ==
    [][IsStep /\ pendingSources = <<>> =>
          /\ \A c \in Grid : sourceRT'[c] = 0
          /\ \A c \in Grid :
                ~IsObstacle(c) =>
                    targets'[rtCurr'][c] =
                        SpecUpdate(targets[rtCurr], targets[rtPrev],
                                   [d \in Grid |-> 0], c)]_vars

\* C24 witness: the second step had an empty queue and a zero source, right
\* after a first step that rasterized an impulse (the field it wrote is in
\* previous).
C24_Witness ==
    /\ steps = 2
    /\ \A c \in Grid : sourceRT[c] = 0
    /\ \E c \in Grid :
          /\ ~IsObstacle(c)
          /\ targets[rtPrev][c] > 1
          /\ targets[rtCurr][c] > targets[rtPrev][c]

\* ------------------------------------------------------------ longer runs
\* The program over more frames than Spec explores, with fewer impulses per
\* frame: from the fourth frame on, the target a step writes holds a field
\* an earlier step wrote.
LongSteps == 4
LongPending == 1

\* onPointerDown(event), with the queue bounded by LongPending.
onPointerDownLong(hit, uv) ==
    /\ Len(pendingSources) < LongPending
    /\ IF hit
       THEN /\ pendingSources' = pushed(pendingSources, pointerImpulse(uv))
            /\ enqueued' = TRUE
       ELSE UNCHANGED <<pendingSources, enqueued>>
    /\ UNCHANGED <<targets, rtCurr, rtPrev, rtTemp, sourceRT,
                   u_prev, u_prevPrev, u_heightMap, sampled, steps>>
    /\ UNCHANGED appVars

\* animate(), for LongSteps frames.
animateLong ==
    /\ steps < LongSteps
    /\ stepSimulation
    /\ sampled' = u_heightMap'
    /\ steps' = steps + 1
    /\ UNCHANGED <<enqueued, appVars>>

NextLong ==
    \/ animateLong
    \/ \E hit \in BOOLEAN, uv \in PointerHits : onPointerDownLong(hit, uv)

SpecLong == Init /\ [][NextLong]_vars

\* C25: a step assigns every cell of the target it writes, an obstacle cell
\* to 0 and any other to the clamped update of old current, old previous and
\* the sources of the step; nothing of what the target held remains.
C25_EveryCellAssigned ==
    [][IsStep =>
          /\ DOMAIN targets'[rtCurr'] = Grid
          /\ \A c \in Grid :
                targets'[rtCurr'][c] =
                    IF IsObstacle(c) THEN 0
                    ELSE clamp(waveUpdate(targets[rtCurr], targets[rtPrev], sourceRT',
                                          c[1], c[2], SIM_SIZE, u_c, u_damping),
                               -B, B)]_vars

\* C25 witness: at least four steps have run, so the target written last had
\* been written before, and the three targets hold three different fields
\* that are not zero in one cell.
C25_Witness ==
    /\ steps >= 4
    /\ \E c \in Grid :
          /\ ~IsObstacle(c)
          /\ \A t \in Targets : targets[t][c] # 0
          /\ targets[rtCurr][c] # targets[rtPrev][c]
          /\ targets[rtCurr][c] # targets[rtTemp][c]
          /\ targets[rtPrev][c] # targets[rtTemp][c]

\* ------------------------------------------------- bursts of pointer events
\* The program with up to BurstPending pointer events between two frames,
\* at two places close enough to reach the same cell with different values.
BurstPending == 3
BurstSteps == 1

\* Two hits near the centre of the corner cell.
BurstHits == {<<17, 20>>, <<15, 17>>}

\* onPointerDown(event), with the queue bounded by BurstPending.
onPointerDownBurst(hit, uv) ==
    /\ Len(pendingSources) < BurstPending
    /\ IF hit
       THEN /\ pendingSources' = pushed(pendingSources, pointerImpulse(uv))
            /\ enqueued' = TRUE
       ELSE UNCHANGED <<pendingSources, enqueued>>
    /\ UNCHANGED <<targets, rtCurr, rtPrev, rtTemp, sourceRT,
                   u_prev, u_prevPrev, u_heightMap, sampled, steps>>
    /\ UNCHANGED appVars

\* animate(), for BurstSteps frames.
animateBurst ==
    /\ steps < BurstSteps
    /\ stepSimulation
    /\ sampled' = u_heightMap'
    /\ steps' = steps + 1
    /\ UNCHANGED <<enqueued, appVars>>

NextBurst ==
    \/ animateBurst
    \/ \E hit \in BOOLEAN, uv \in BurstHits : onPointerDownBurst(hit, uv)

SpecBurst == Init /\ [][NextBurst]_vars

\* The queues that hold the impulses of pending in another order.
Reordered(pending) ==
    {[i \in 1 .. Len(pending) |-> pending[p[i]]] :
        p \in Permutations(1 .. Len(pending))}

\* The source a step would rasterize from the queue q, and the field it
\* would then write.
SourceOf(q) == sourcePass(sourceRT, q, SIM_SIZE)
FieldOf(q) ==
    simPass(targets[rtCurr], targets[rtPrev], SourceOf(q), SIM_SIZE, u_c, u_damping)

Max(a, b) == IF a > b THEN a ELSE b

SpecLive == Init /\ [][Next]_vars /\ WF_steps(animate)

\* The impulse src is in the pending queue.
IsPending(src) == \E k \in 1 .. Len(pendingSources) : pendingSources[k] = src

\* The last step has rasterized the impulse src and emptied the queue.
IsRasterized(src) ==
    /\ steps > 0
    /\ pendingSources = <<>>
    /\ \A c \in Grid : sourceRT[c] >= sourceFragment(src, c[1], c[2], SIM_SIZE)
    /\ \E c \in Grid : sourceRT[c] > 0

MaxFrames == 2

\* wanderStrength = 1.5, in tenths.
wanderStrength == 15
\* maxSpeed = 20.0, in hundredths of a unit per second.
maxSpeed == 2000

\* dt = min(t - lastTime, 0.05), in milliseconds.
FrameTimes == {20, 50}
\* Math.random() for the axes x, y, z, in tenths.
RandomDraws == {<<0, 0, 0>>, <<9, 9, 9>>, <<0, 9, 5>>}
\* The values the page gives the sliders of source 2 at start.
StartSliders ==
    {[x |-> -100, y |-> 100, z |-> 0], [x |-> 100, y |-> -100, z |-> 100],
     [x |-> 0, y |-> 0, z |-> -30]}
\* Bounding boxes of the GLB model: a box, and a flat one (no height).
BoundingBoxes ==
    {[min |-> [x |-> -200, y |-> 0, z |-> -300], max |-> [x |-> 200, y |-> 100, z |-> 300]],
     [min |-> [x |-> -50, y |-> 10, z |-> -50], max |-> [x |-> 50, y |-> 10, z |-> 50]]}
\* The modes of the material select.
MaterialModes == {"grid", "gridTransparent", "gridPoints"}

\* The largest s in lo .. hi with s * s <= v.
RECURSIVE SqrtIn(_, _, _)
SqrtIn(v, lo, hi) ==
    IF lo >= hi THEN lo
    ELSE LET mid == (lo + hi + 1) \div 2
         IN  IF mid * mid <= v THEN SqrtIn(v, mid, hi) ELSE SqrtIn(v, lo, mid - 1)

\* vel.length()
length(vel) ==
    SqrtIn(vel["x"] * vel["x"] + vel["y"] * vel["y"] + vel["z"] * vel["z"], 0, 40000)

\* The random steering and the speed limit of updateAutoSource.
steer(dt, vel, rnd) ==
    LET draw    == [x |-> rnd[1], y |-> rnd[2], z |-> rnd[3]]
        steered == [axis \in Axes |->
                       vel[axis] + RoundDiv((draw[axis] - 5) * wanderStrength * dt, 1000)]
        speed   == length(steered)
    IN  IF steered["x"] * steered["x"] + steered["y"] * steered["y"]
           + steered["z"] * steered["z"] > maxSpeed * maxSpeed
        THEN [axis \in Axes |-> RoundDiv(steered[axis] * maxSpeed, speed)]
        ELSE steered

\* pos.addScaledVector(vel, dt)
addScaledVector(pos, vel, dt) ==
    [axis \in Axes |-> pos[axis] + RoundDiv(vel[axis] * dt, 1000)]

\* Mutant of updateAutoSource: the bounce reflects the velocity and leaves
\* the position where the move put it.
updateAutoSource_noClamp(dt, pos, vel, rnd, bmin, bmax) ==
    LET v == steer(dt, vel, rnd)
        p == addScaledVector(pos, v, dt)
    IN  [moved |-> p,
         pos   |-> p,
         vel   |-> [axis \in Axes |->
                      IF p[axis] < bmin[axis] THEN Abs(v[axis])
                      ELSE IF p[axis] > bmax[axis] THEN -Abs(v[axis])
                      ELSE v[axis]]]

\* updateAutoSource(dt, pos, vel), with the draws of Math.random() and the
\* bounds it reads: the position and velocity it leaves, and the position
\* before the bounce.
updateAutoSource(dt, pos, vel, rnd, bmin, bmax) ==
    LET v == steer(dt, vel, rnd)
        p == addScaledVector(pos, v, dt)
    IN  [moved |-> p,
         pos   |-> [axis \in Axes |->
                      IF p[axis] < bmin[axis] THEN bmin[axis]
                      ELSE IF p[axis] > bmax[axis] THEN bmax[axis]
                      ELSE p[axis]],
         vel   |-> [axis \in Axes |->
                      IF p[axis] < bmin[axis] THEN Abs(v[axis])
                      ELSE IF p[axis] > bmax[axis] THEN -Abs(v[axis])
                      ELSE v[axis]]]

\* The material a mode stands for (created before any callback runs).
materialOf(mode) ==
    CASE mode = "grid" -> "gridMaterial"
      [] mode = "gridTransparent" -> "gridWireMaterial"
      [] mode = "gridPoints" -> "gridPointsMaterial"

\* Mutant of applyMaterialMode: the mode is stored only once the model is
\* there.
applyMaterialMode_notRemembered(mode, current, mdl, materials) ==
    IF mdl = "null" THEN [currentMaterialMode |-> current, childMaterial |-> materials]
    ELSE [currentMaterialMode |-> mode,
          childMaterial |-> [child \in Children |->
                                IF isMesh(child) THEN materialOf(mode)
                                ELSE materials[child]]]

\* applyMaterialMode(mode), with the globals it reads: the mode it stores
\* and the materials it leaves on the children of the model.
applyMaterialMode(mode, current, mdl, materials) ==
    IF mdl = "null" THEN [currentMaterialMode |-> mode, childMaterial |-> materials]
    ELSE [currentMaterialMode |-> mode,
          childMaterial |-> [child \in Children |->
                                IF isMesh(child) THEN materialOf(mode)
                                ELSE materials[child]]]

\* materialSelect "change" listener
materialSelectChange(mode) ==
    LET applied == applyMaterialMode(mode, currentMaterialMode, model, childMaterial)
    IN  /\ mode # materialSelectValue
        /\ materialSelectValue' = mode
        /\ currentMaterialMode' = applied.currentMaterialMode
        /\ childMaterial' = applied.childMaterial
        /\ UNCHANGED <<model, loading, boundsMin, boundsMax, source2Pos,
                       source2Velocity, moved, frames, simVars>>

\* loader.load success callback, for a model of bounding box bbox.
loaderOnLoad(bbox) ==
    LET initial == [child \in Children |->
                       IF isMesh(child) THEN "gridMaterial" ELSE childMaterial[child]]
        applied == applyMaterialMode(currentMaterialMode, currentMaterialMode,
                                     "root", initial)
    IN  /\ loading
        /\ loading' = FALSE
        /\ model' = "root"
        /\ currentMaterialMode' = applied.currentMaterialMode
        /\ childMaterial' = applied.childMaterial
        /\ boundsMin' = bbox.min
        /\ boundsMax' = bbox.max
        /\ source2Pos' = updateSource2FromSliders([x |-> 0, y |-> 0, z |-> -30],
                                                  bbox.min, bbox.max)
        /\ UNCHANGED <<materialSelectValue, source2Velocity, moved, frames, simVars>>

\* loader.load error callback
loaderOnError ==
    /\ loading
    /\ loading' = FALSE
    /\ UNCHANGED <<model, currentMaterialMode, materialSelectValue, childMaterial,
                   boundsMin, boundsMax, source2Pos, source2Velocity, moved,
                   frames, simVars>>

\* animate() of the viewer, source 2 on auto: updateAutoSource(dt,
\* source2Pos, source2Velocity).
animateViewer(dt, rnd) ==
    LET r == updateAutoSource(dt, source2Pos, source2Velocity, rnd,
                              boundsMin, boundsMax)
    IN  /\ frames < MaxFrames
        /\ frames' = frames + 1
        /\ source2Pos' = r.pos
        /\ source2Velocity' = r.vel
        /\ moved' = r.moved
        /\ UNCHANGED <<model, loading, currentMaterialMode, materialSelectValue,
                       childMaterial, boundsMin, boundsMax, simVars>>

\* The integrator of part_001 idle, as Init leaves it.
SimIdle ==
    /\ rtCurr = 1
    /\ rtPrev = 2
    /\ rtTemp = 3
    /\ targets = [t \in Targets |-> clearRT(1)]
    /\ sourceRT = clearRT(1)
    /\ pendingSources = <<>>
    /\ u_prev = 1
    /\ u_prevPrev = 2
    /\ u_heightMap = 1
    /\ sampled = 0
    /\ steps = 0
    /\ enqueued = FALSE

InitViewer == SimIdle /\ \E sliders \in StartSliders : AppInit(sliders)

NextViewer ==
    \/ \E dt \in FrameTimes, rnd \in RandomDraws : animateViewer(dt, rnd)
    \/ \E mode \in MaterialModes : materialSelectChange(mode)
    \/ \E bbox \in BoundingBoxes : loaderOnLoad(bbox)
    \/ loaderOnError

SpecViewer == InitViewer /\ [][NextViewer]_vars

\* The transition is a frame of the viewer.
IsFrame == frames' = frames + 1

\* C28: after a call of updateAutoSource with boundsMin <= boundsMax on each
\* axis, the position lies inside the bounds on each axis; on an axis where
\* the move left the bounds the position is the bound it crossed and the
\* velocity points back inside.
C28_BounceInsideBounds ==
    [][IsFrame /\ (\A axis \in Axes : boundsMin[axis] <= boundsMax[axis]) =>
          \A axis \in Axes :
              /\ boundsMin[axis] <= source2Pos'[axis]
              /\ source2Pos'[axis] <= boundsMax[axis]
              /\ moved'[axis] < boundsMin[axis] =>
                    source2Pos'[axis] = boundsMin[axis] /\ source2Velocity'[axis] >= 0
              /\ moved'[axis] > boundsMax[axis] =>
                    source2Pos'[axis] = boundsMax[axis] /\ source2Velocity'[axis] <= 0
              /\ (boundsMin[axis] <= moved'[axis] /\ moved'[axis] <= boundsMax[axis]) =>
                    source2Pos'[axis] = moved'[axis]]_vars

\* C28 witness: the last frame moved source 2 below the bounds on one axis
\* and above them on another, and it was put back on both.
C28_Witness ==
    /\ frames > 0
    /\ \E a, b \in Axes :
          /\ moved[a] < boundsMin[a]
          /\ source2Pos[a] = boundsMin[a]
          /\ source2Velocity[a] > 0
          /\ moved[b] > boundsMax[b]
          /\ source2Pos[b] = boundsMax[b]
          /\ source2Velocity[b] < 0

\* C29: the mode selected is always the mode remembered, and once the model
\* is loaded every mesh of it carries the material of the mode selected
\* last, whichever way mode changes and the load completion interleave.
C29_LatestModeApplied ==
    /\ currentMaterialMode = materialSelectValue
    /\ model # "null" =>
          \A child \in Children :
              isMesh(child) => childMaterial[child] = materialOf(materialSelectValue)

\* C29 witness: the model is loaded, the mode selected is neither the
\* default nor the one the callback sets first, and every mesh carries its
\* material.
C29_Witness ==
    /\ model = "root"
    /\ materialSelectValue = "gridPoints"
    /\ \A child \in Children :
          isMesh(child) => childMaterial[child] = "gridPointsMaterial"
    /\ \E child \in Children : ~isMesh(child) /\ childMaterial[child] = "original"

====
